---- MODULE Spec2Model ----
(***************************************************************************)
(* Task lifecycle of the build agent (Pipeline.Start, runOldVersion,       *)
(* runNewVersion, runDiscoveryForEachSubModule) and the test discovery     *)
(* dispatcher (testDiscoveryService.Discover / DiscoverV2).                *)
(*                                                                         *)
(* pc is the controller's position in Start: the name of the call it is    *)
(* about to make.  Every collaborator call is one action; its result is    *)
(* drawn from Res(..): "ok", "fail" (an error of the collaborator),        *)
(* "canceled" (the collaborator returns its context's cancellation error,  *)
(* possible once the run's context is cancelled) or "panic".               *)
(***************************************************************************)
EXTENDS Integers, Sequences, FiniteSets, TLC

\* ------------------------------------------------------------------ bounds
\* largest number of submodules in a merge list of the v2 config
MaxSubModules == 2
\* longest version field the version read is followed for
MaxFieldLen == 3
\* the decimal digits; the value of a digit is its position less one
Digits == <<"0", "1", "2", "3", "4", "5", "6", "7", "8", "9">>
IsDigit(c) == \E d \in 1..Len(Digits) : Digits[d] = c
DigitVal(c) == (CHOOSE d \in 1..Len(Digits) : Digits[d] = c) - 1

\* strconv.Atoi on an unsigned string: it fails on the empty string and on
\* any character that is no digit
AtoiOk(s) == s # <<>> /\ \A k \in 1..Len(s) : IsDigit(s[k])
RECURSIVE Atoi(_)
Atoi(s) ==
  IF s = <<>> THEN 0
  ELSE Atoi(SubSeq(s, 1, Len(s) - 1)) * Len(Digits) + DigitVal(s[Len(s)])

\* the part of the version field before its first dot
RECURSIVE MajorField(_)
MajorField(s) ==
  IF s = <<>> \/ Head(s) = "." THEN <<>> ELSE <<Head(s)>> \o MajorField(Tail(s))

\* GetVersion on a version field: the major part as an integer
VersionParses(s) == AtoiOk(MajorField(s))
VersionOf(s) == Atoi(MajorField(s))

\* the version fields of the config files a whole run is followed for:
\* "1", "2" and "a"
VersionStrings == {<<"1">>, <<"2">>, <<"a">>}

\* the version fields the version read alone is followed for: every string
\* of at most MaxFieldLen characters out of digits, the dot and a letter
VersionChars == {"0", "1", "2", "9", ".", "a"}
VersionFields == UNION {[1..n -> VersionChars] : n \in 0..MaxFieldLen}

\* the config versions GetVersion yields
Versions == {VersionOf(s) : s \in {t \in VersionStrings : VersionParses(t)}}

\* dispatcher invocations: 0 is the legacy Discover call, i > 0 the
\* DiscoverV2 call of submodule i
SubIds == 1..MaxSubModules
Inv == 0..MaxSubModules

\* --------------------------------------------------------------- constants
Running == "Running"
Passed == "Passed"
Failed == "Failed"
Error == "Error"
Aborted == "Aborted"
Terminal == {Passed, Failed, Error, Aborted}

EventPush == "push"
EventPullRequest == "pull_request"

GenericErrRemark == "GenericErrRemark"
\* the text of an error as a collaborator returned it
RawText == "underlying error text"

\* ---------------------------------------------------------- test selection
\* most entries of a diff map
MaxDiffFiles == 2

\* the config file path GetConfigFileName yields, and the paths of a diff
TasFile == ".tas.yml"
Files == {TasFile, "a.ts", "b.ts", "c.ts"}

\* the change kinds of a diff entry
FileAdded == "Added"
FileModified == "Modified"
FileRemoved == "Removed"
Kinds == {FileAdded, FileModified, FileRemoved}

\* the diff maps: path -> change kind
Diffs == UNION {[S -> Kinds] : S \in {T \in SUBSET Files : Cardinality(T) <= MaxDiffFiles}}
NoDiff == [f \in {} |-> FileRemoved]

\* the orders in which `range diff` may visit the keys (Go fixes none)
RangeOrders(d) ==
  {o \in [1..Cardinality(DOMAIN d) -> DOMAIN d] :
     \A f \in DOMAIN d : \E k \in DOMAIN o : o[k] = f}

\* tasConfig.ConfigFile / subModule.ConfigFile, and the pattern lists
ConfigFiles == {"", "jest.config.js"}
Targets == {<<>>, <<"src/*.spec.ts">>, <<"src/*.spec.ts", "test/*.ts">>}

\* a selector that does not look for the config file in the diff
DiscoverAllIgnoresConfig(d, smart) == ~smart

\* lines 56-66 (157-167): discover all tests if the config file is a key of
\* the diff or smart run is off
discoverAll(d, smart) == TasFile \in DOMAIN d \/ ~smart

\* a loop that does not skip removed files
RECURSIVE RangeArgsAll(_, _)
RangeArgsAll(d, o) ==
  IF o = <<>> THEN <<>> ELSE <<"--diff", Head(o)>> \o RangeArgsAll(d, Tail(o))

\* lines 74-79 (175-180): the loop over the diff, visiting the keys in order o
RECURSIVE RangeArgs(_, _)
RangeArgs(d, o) ==
  IF o = <<>> THEN <<>>
  ELSE (IF d[Head(o)] # FileRemoved THEN <<"--diff", Head(o)>> ELSE <<>>)
         \o RangeArgs(d, Tail(o))

\* a selector without the branch for the empty diff
DiffArgsNoBare(d, exists, o) == RangeArgs(d, o)

\* a selector that takes every empty diff for a reverted change
DiffArgsBareOnEmpty(d, exists, o) ==
  IF Cardinality(DOMAIN d) = 0 THEN <<"--diff">> ELSE RangeArgs(d, o)

\* lines 70-80 (171-181): a bare --diff for an empty diff that exists, else
\* the loop
DiffArgs(d, exists, o) ==
  IF Cardinality(DOMAIN d) = 0 /\ exists THEN <<"--diff">> ELSE RangeArgs(d, o)

\* lines 86-88 (187-189)
RECURSIVE PatternArgs(_)
PatternArgs(t) ==
  IF t = <<>> THEN <<>> ELSE <<"--pattern", Head(t)>> \o PatternArgs(Tail(t))

\* lines 68-88 (169-189): the argument list of the runner
SelectorArgs(d, exists, smart, configFile, target, o) ==
  <<"--command", "discover">>
    \o (IF ~discoverAll(d, smart) THEN DiffArgs(d, exists, o) ELSE <<>>)
    \o (IF configFile # "" THEN <<"--config", configFile>> ELSE <<>>)
    \o PatternArgs(target)

\* ------------------------------------------------------- environment maps
\* the keys env maps are followed for
EnvKeys == {"A", "B"}
\* what an env map holds for a key: no entry, the value given at the merge
\* level, or (i > 0) the value given by submodule i
Absent == 0
MergeValue == -1
MergeEnvMaps == [EnvKeys -> {Absent, MergeValue}]
SubEnvMaps(i) == [EnvKeys -> {Absent, i}]
NoEnv == [k \in EnvKeys |-> Absent]
\* no env map has been handed to GetEnvVariables yet
NotBuilt == [k \in EnvKeys |-> -2]
\* the keys a map has an entry for
Entries(m) == {k \in EnvKeys : m[k] # Absent}
\* envMap[k] = v (line 153)
Put(m, k, v) == [m EXCEPT ![k] = v]
\* a map m overlaid with the entries of s, m itself left as it is
Overlay(m, s) == [k \in EnvKeys |-> IF s[k] # Absent THEN s[k] ELSE m[k]]

\* --------------------------------------------------------------- cache key
\* the identifiers and configured keys cache keys are built from
KeyStrings == {<<"a">>, <<"b">>, <<"a", "/", "b">>}
KeyPartsSet == [OrgID : KeyStrings, RepoID : KeyStrings, Key : KeyStrings]
\* the identifiers and the configured key of the runs followed as a whole
OneKey == [OrgID |-> <<"a">>, RepoID |-> <<"b">>, Key |-> <<"a", "/", "b">>]

\* a key without the repository
CacheKeyNoRepo(org, repo, key) == org \o <<"/">> \o key

\* fmt.Sprintf("%s/%s/%s", payload.OrgID, payload.RepoID, tasConfig.Cache.Key)
CacheKey(org, repo, key) == org \o <<"/">> \o repo \o <<"/">> \o key

VARIABLES
  cfg,          \* pl.Cfg: the static mode flags
  pc,           \* controller position in Start / runOldVersion / runNewVersion
  err,          \* Start's named return value err
  panicked,     \* a panic is unwinding the controller's flow
  cause,        \* what the failing call itself returned: "fail", "canceled" (history)
  cancelled,    \* the run's context is cancelled
  eventType,    \* payload.EventType
  taskPayload,  \* the TaskRun record: Type, Status, Remark
  reports,      \* the UpdateStatus calls made so far, in order
  version,      \* result of GetVersion
  envSet,       \* the twelve environment variables are published
  spawnedBeforeEnv, \* kinds of subprocess spawned before the variables were published (history)
  tasVersion,   \* the version field of the config file, as characters
  phases,       \* the phases the run has entered: discovery, execution (history)
  diffExists,   \* diffExists of runOldVersion / runNewVersion
  tasConfig,    \* sizes of PostMerge.SubModules and PreMerge.SubModules
  launched,     \* loop index of the submodule launch loop
  wg,           \* the sync.WaitGroup counter
  tpc,          \* position of each submodule goroutine
  dpc,          \* position of each dispatcher invocation
  posted,       \* the runner of invocation i has posted its result
  tdResChan,    \* results in flight on the shared result channel (origins)
  recvFrom,     \* origin of the result each invocation received (-1: none)
  recvCount,    \* receives performed by each invocation (history)
  exited,       \* the subprocess of each invocation has exited (history)
  uploads,      \* CacheStore.Upload calls made
  cacheCalls,   \* the CacheStore.Download and Upload calls made, in order, with their keys
  keyParts,     \* payload.OrgID, payload.RepoID and tasConfig.Cache.Key
  changedFiles, \* the changed files of the commit under build: path -> change kind
  diff,         \* the diff map handed to the dispatcher: path -> change kind
  smartRun,     \* tasConfig.SmartRun
  args,         \* the argument list the dispatcher built last
  argsOf,       \* the function that built args: "Discover", "DiscoverV2" ("none": not built)
  loadedEnv,    \* the merge-level env map of the selected list, as loaded from the config
  mergeEnv,     \* that map now: the Go map tasConfig.PreMerge.EnvMap / PostMerge.EnvMap
  subEnv,       \* subModule.EnvMap of each submodule
  written,      \* the keys each DiscoverV2 invocation has written in its loop (lines 152-154)
  cmdEnv        \* the env map each DiscoverV2 invocation handed to GetEnvVariables (line 194)

ctl == <<pc, err, panicked, cause>>
run == <<eventType, taskPayload, reports, version, envSet, spawnedBeforeEnv, tasVersion,
        phases, diffExists, tasConfig, uploads, cacheCalls>>
fan == <<launched, wg, tpc>>
disp == <<dpc, posted, tdResChan, recvFrom, recvCount, exited>>
sel == <<changedFiles, diff, smartRun, args, argsOf>>
envs == <<loadedEnv, mergeEnv, subEnv, written, cmdEnv>>
vars == <<cfg, keyParts, cancelled, ctl, run, fan, disp, sel, envs>>

\* the local cacheKey of runOldVersion (line 248) and runNewVersion (line 398)
cacheKey == CacheKey(keyParts.OrgID, keyParts.RepoID, keyParts.Key)

\* ------------------------------------------------------------------ errors
NilErr == [kind |-> "nil", msg |-> ""]
\* &errs.StatusFailed{Remark: remark}; Error() is the remark
StatusFailed(remark) == [kind |-> "StatusFailed", msg |-> remark]
\* errs.New(msg)
ErrsNew(msg) == [kind |-> "plain", msg |-> msg]
\* the error value a collaborator returned for result r
Under(r) ==
  IF r = "canceled" THEN [kind |-> "canceled", msg |-> "context canceled"]
  ELSE [kind |-> "plain", msg |-> RawText]

\* results of a collaborator call
Res(cancellable) ==
  {"ok", "fail", "panic"} \cup (IF cancellable /\ cancelled THEN {"canceled"} ELSE {})

\* the call returned nil: go on at next
Ok(r, next) ==
  /\ r = "ok"
  /\ pc' = next
  /\ UNCHANGED <<err, panicked, cause>>

\* an early return that the finalizer does not cover
FailNoDefer(r, step, e) ==
  /\ r \in {"fail", "canceled"}
  /\ err' = e
  /\ cause' = r
  /\ pc' = "returned"
  /\ UNCHANGED panicked

\* the call failed and the controller returns e: the deferred finalizer runs
Fail(r, step, e) ==
  /\ r \in {"fail", "canceled"}
  /\ err' = e
  /\ cause' = r
  /\ pc' = "finalizer"
  /\ UNCHANGED panicked

\* a panic that nothing recovers: it leaves Start and ends the process
PanicsUnrecovered(r) ==
  /\ r = "panic"
  /\ panicked' = TRUE
  /\ pc' = "crashed"
  /\ UNCHANGED <<err, cause>>

\* the call panicked on the controller's flow: unwinding runs the finalizer
Panics(r) ==
  /\ r = "panic"
  /\ panicked' = TRUE
  /\ pc' = "finalizer"
  /\ UNCHANGED <<err, cause>>

\* `return nil`
ReturnNil ==
  /\ pc' = "finalizer"
  /\ err' = NilErr
  /\ UNCHANGED <<panicked, cause>>

\* subprocesses of the given kinds are spawned (exec.Command through the
\* execution manager or the dispatcher); those spawned while the variables
\* are not yet published are noted
Spawns(kinds) ==
  spawnedBeforeEnv' = IF envSet THEN spawnedBeforeEnv ELSE spawnedBeforeEnv \cup kinds

Init ==
  /\ cfg \in [DiscoverMode : BOOLEAN, ExecuteMode : BOOLEAN,
              FlakyMode : BOOLEAN, CoverageMode : BOOLEAN]
  /\ pc = "FetchPayload"
  /\ err = NilErr
  /\ panicked = FALSE
  /\ cause = "none"
  /\ cancelled = FALSE
  /\ eventType = "unset"
  /\ taskPayload = [Type |-> "unset", Status |-> "unset", Remark |-> ""]
  /\ reports = <<>>
  /\ version = 0
  /\ envSet = FALSE
  /\ spawnedBeforeEnv = {}
  /\ tasVersion \in VersionStrings
  /\ phases = {}
  /\ diffExists = TRUE
  /\ tasConfig = [PostMerge |-> 0, PreMerge |-> 0]
  /\ launched = 0
  /\ wg = 0
  /\ tpc = [i \in SubIds |-> "unlaunched"]
  /\ dpc = [i \in Inv |-> "none"]
  /\ posted = [i \in Inv |-> FALSE]
  /\ tdResChan = <<>>
  /\ recvFrom = [i \in Inv |-> -1]
  /\ recvCount = [i \in Inv |-> 0]
  /\ exited = [i \in Inv |-> FALSE]
  /\ uploads = 0
  /\ cacheCalls = <<>>
  /\ keyParts = OneKey
  /\ changedFiles = NoDiff
  /\ diff = NoDiff
  /\ smartRun = FALSE
  /\ args = <<>>
  /\ argsOf = "none"
  /\ loadedEnv = NoEnv
  /\ mergeEnv = NoEnv
  /\ subEnv = [i \in SubIds |-> NoEnv]
  /\ written = [i \in SubIds |-> {}]
  /\ cmdEnv = [i \in SubIds |-> NotBuilt]

\* the run is on: Start has not returned, and the process has neither exited
\* (os.Exit, Fatalf) nor crashed (a panic nothing recovers)
Alive == pc \notin {"returned", "exited", "crashed"}

\* ------------------------------------------------------------- Start
\* the parent context is cancelled
Cancel ==
  /\ Alive
  /\ ~cancelled
  /\ cancelled' = TRUE
  /\ UNCHANGED <<cfg, keyParts, sel, envs, ctl, run, fan, disp>>

\* a fetch whose failure is reported before the process stops
FetchPayloadReportsFailure ==
  /\ pc = "FetchPayload"
  /\ \E ok \in BOOLEAN, ev \in {EventPush, EventPullRequest} :
       IF ok THEN pc' = "ValidatePayload" /\ eventType' = ev /\ UNCHANGED reports
       ELSE /\ pc' = "exited"
            /\ reports' = Append(reports, [Status |-> Error, Remark |-> GenericErrRemark])
            /\ UNCHANGED eventType
  /\ UNCHANGED <<cfg, keyParts, sel, envs, cancelled, err, panicked, cause, taskPayload,
                 version, envSet, spawnedBeforeEnv, tasVersion,
                 phases, diffExists, tasConfig, uploads, cacheCalls, fan, disp>>

\* a failure of FetchPayload is fatal (Fatalf): the process exits
FetchPayload ==
  /\ pc = "FetchPayload"
  /\ \E ok \in BOOLEAN, ev \in {EventPush, EventPullRequest} :
       IF ok THEN pc' = "ValidatePayload" /\ eventType' = ev
       ELSE pc' = "exited" /\ UNCHANGED eventType
  /\ UNCHANGED <<cfg, keyParts, sel, envs, cancelled, err, panicked, cause, taskPayload, reports,
                 version, envSet, spawnedBeforeEnv, tasVersion,
                 phases, diffExists, tasConfig, uploads, cacheCalls, fan, disp>>

\* a failure of ValidatePayload is fatal (Fatalf); coverage mode branches off
ValidatePayload ==
  /\ pc = "ValidatePayload"
  /\ \E ok \in BOOLEAN :
       pc' = IF ~ok THEN "exited"
             ELSE IF cfg.CoverageMode THEN "MergeAndUpload" ELSE "MarkRunning"
  /\ UNCHANGED <<cfg, keyParts, sel, envs, cancelled, err, panicked, cause, run, fan, disp>>

\* coverage mode: Fatalf on error, os.Exit(0) otherwise
MergeAndUpload ==
  /\ pc = "MergeAndUpload"
  /\ pc' = "exited"
  /\ UNCHANGED <<cfg, keyParts, sel, envs, cancelled, err, panicked, cause, run, fan, disp>>

\* the task type chosen from the mode flags
TaskType ==
  IF cfg.DiscoverMode THEN "DiscoveryTask"
  ELSE IF cfg.FlakyMode THEN "FlakyTask" ELSE "ExecutionTask"

\* taskPayload is created with Running and reported; the finalizer is
\* registered once the report succeeded
MarkRunning ==
  /\ pc = "MarkRunning"
  /\ taskPayload' = [Type |-> TaskType, Status |-> Running, Remark |-> ""]
  /\ reports' = Append(reports, [Status |-> Running, Remark |-> ""])
  /\ \E ok \in BOOLEAN : pc' = IF ok THEN "GetOauthSecret" ELSE "exited"
  /\ UNCHANGED <<cfg, keyParts, sel, envs, cancelled, err, panicked, cause, eventType, version, envSet,
                 spawnedBeforeEnv, tasVersion, phases,
                 diffExists, tasConfig, uploads, cacheCalls, fan, disp>>


\* a classifier without the cancellation branch
ClassifyNoAbort(p, e, tp) ==
  IF p THEN [tp EXCEPT !.Status = Error, !.Remark = GenericErrRemark]
  ELSE IF e.kind # "nil" THEN
    [tp EXCEPT !.Status = IF e.kind = "StatusFailed" THEN Failed ELSE Error,
               !.Remark = e.msg]
  ELSE tp

\* a classifier that marks every run without a StatusFailed error as Error
ClassifyNilAsError(p, e, tp) ==
  IF p \/ e.kind \notin {"canceled", "StatusFailed"}
  THEN [tp EXCEPT !.Status = Error, !.Remark = GenericErrRemark]
  ELSE IF e.kind = "canceled"
    THEN [tp EXCEPT !.Status = Aborted, !.Remark = "Task aborted"]
    ELSE [tp EXCEPT !.Status = Failed, !.Remark = e.msg]

\* lines 101-118 of the deferred function: classify the outcome
Classify(p, e, tp) ==
  IF p THEN [tp EXCEPT !.Status = Error, !.Remark = GenericErrRemark]
  ELSE IF e.kind # "nil" THEN
    IF e.kind = "canceled"
    THEN [tp EXCEPT !.Status = Aborted, !.Remark = "Task aborted"]
    ELSE [tp EXCEPT !.Status = IF e.kind = "StatusFailed" THEN Failed ELSE Error,
                    !.Remark = e.msg]
  ELSE tp

\* a deferred function that makes the terminal report without assigning its
\* result to the named return value
FinalizerKeepsErr ==
  /\ pc = "finalizer"
  /\ taskPayload' = Classify(panicked, err, taskPayload)
  /\ reports' = Append(reports, [Status |-> taskPayload'.Status,
                                 Remark |-> taskPayload'.Remark])
  /\ \E ok \in BOOLEAN :
       IF ok THEN pc' = "returned" /\ UNCHANGED err /\ cancelled' = TRUE
       ELSE pc' = "exited" /\ err' = Under("fail") /\ UNCHANGED cancelled
  /\ UNCHANGED <<cfg, keyParts, sel, envs, panicked, cause, eventType, version, envSet, spawnedBeforeEnv, tasVersion,
                 phases, diffExists,
                 tasConfig, uploads, cacheCalls, fan, disp>>

\* the deferred function (lines 100-122): recover, classify, and make the
\* terminal report, whose result overwrites err; a failed report is fatal.
\* On return the deferred cancel() of line 43 runs.
Finalizer ==
  /\ pc = "finalizer"
  /\ taskPayload' = Classify(panicked, err, taskPayload)
  /\ reports' = Append(reports, [Status |-> taskPayload'.Status,
                                 Remark |-> taskPayload'.Remark])
  /\ \E ok \in BOOLEAN :
       IF ok THEN pc' = "returned" /\ err' = NilErr /\ cancelled' = TRUE
       ELSE pc' = "exited" /\ err' = Under("fail") /\ UNCHANGED cancelled
  /\ UNCHANGED <<cfg, keyParts, sel, envs, panicked, cause, eventType, version, envSet, spawnedBeforeEnv, tasVersion,
                 phases, diffExists,
                 tasConfig, uploads, cacheCalls, fan, disp>>

\* the error is returned as the parser gave it; the SecretParser interface
\* fixes no error set, so a cancellation error is among the possible values
GetOauthSecret ==
  /\ pc = "GetOauthSecret"
  /\ \E r \in Res(TRUE) :
       \/ Ok(r, "GetRepoSecret")
       \/ Fail(r, "GetOauthSecret", Under(r))
       \/ Panics(r)
  /\ UNCHANGED <<cfg, keyParts, sel, envs, cancelled, run, fan, disp>>

\* a secret read whose error is logged and not returned
GetRepoSecretErrIgnored ==
  /\ pc = "GetRepoSecret"
  /\ \E r \in Res(FALSE) :
       \/ /\ r \in {"ok", "fail"}
          /\ pc' = IF cfg.DiscoverMode THEN "Clone" ELSE "ExtractWorkspace"
          /\ cause' = IF r = "fail" THEN r ELSE cause
          /\ UNCHANGED <<err, panicked>>
       \/ Panics(r)
  /\ UNCHANGED <<cfg, keyParts, sel, envs, cancelled, run, fan, disp>>

GetRepoSecret ==
  /\ pc = "GetRepoSecret"
  /\ \E r \in Res(FALSE) :
       \/ Ok(r, IF cfg.DiscoverMode THEN "Clone" ELSE "ExtractWorkspace")
       \/ Fail(r, "GetRepoSecret", ErrsNew(GenericErrRemark))
       \/ Panics(r)
  /\ UNCHANGED <<cfg, keyParts, sel, envs, cancelled, run, fan, disp>>

\* GitManager.Clone downloads and unpacks the archive, then initGit runs the
\* git commands (git = TRUE: initGit was reached); a successful Clone has run
\* them
Clone ==
  /\ pc = "Clone"
  /\ \E r \in Res(TRUE), git \in BOOLEAN :
       /\ \/ git /\ Ok(r, "CreateCoverageDir")
          \/ Fail(r, "Clone", StatusFailed("Unable to clone repo"))
          \/ Panics(r)
       /\ Spawns(IF git THEN {"git"} ELSE {})
  /\ UNCHANGED <<cfg, keyParts, sel, envs, cancelled, eventType, taskPayload, reports, version, envSet,
                 tasVersion, phases, diffExists, tasConfig, uploads, cacheCalls, fan, disp>>

ExtractWorkspace ==
  /\ pc = "ExtractWorkspace"
  /\ \E r \in Res(TRUE) :
       \/ Ok(r, "CreateCoverageDir")
       \/ Fail(r, "ExtractWorkspace", ErrsNew(GenericErrRemark))
       \/ Panics(r)
  /\ UNCHANGED <<cfg, keyParts, sel, envs, cancelled, run, fan, disp>>

\* payload.CollectCoverage is read here only: collect = FALSE skips the call
CreateCoverageDir ==
  /\ pc = "CreateCoverageDir"
  /\ \E collect \in BOOLEAN, r \in Res(FALSE) :
       \/ ~collect /\ Ok("ok", "GetVersion")
       \/ collect /\ Ok(r, "GetVersion")
       \/ collect /\ Fail(r, "CreateCoverageDir", ErrsNew(GenericErrRemark))
       \/ collect /\ Panics(r)
  /\ UNCHANGED <<cfg, keyParts, sel, envs, cancelled, run, fan, disp>>

\* a failed version read that ends the process with no report
GetVersionFailsFatal(r) ==
  /\ r \in {"fail", "canceled"}
  /\ pc' = "exited"
  /\ cause' = r
  /\ UNCHANGED <<err, panicked>>

\* lines 163-167: the error is wrapped in a StatusFailed carrying its text
\* and returned
GetVersionFails(r) == Fail(r, "GetVersion", StatusFailed(RawText))

\* a controller that does not publish the variables
SetenvSkipped == UNCHANGED envSet

\* lines 168-182: the twelve os.Setenv calls
Setenv == envSet' = TRUE

\* a dispatch that knows version 2 only
DispatchOnlyTwo(v) == IF v = 2 THEN "LoadAndValidateV2" ELSE "LoadAndValidateV1"

\* lines 183-190: runNewVersion for version >= 2, else runOldVersion; each
\* starts by loading the config
Dispatch(v) == IF v >= 2 THEN "LoadAndValidateV2" ELSE "LoadAndValidateV1"

\* GetVersion, the twelve os.Setenv calls and the version dispatch; the read
\* fails when the config manager fails or the version field does not parse
GetVersion ==
  /\ pc = "GetVersion"
  /\ \E r \in Res(FALSE) :
       \/ /\ VersionParses(tasVersion)
          /\ Ok(r, Dispatch(VersionOf(tasVersion)))
          /\ version' = VersionOf(tasVersion)
          /\ Setenv
       \/ /\ GetVersionFails(IF r = "ok" /\ ~VersionParses(tasVersion) THEN "fail" ELSE r)
          /\ UNCHANGED <<version, envSet>>
       \/ /\ Panics(r)
          /\ UNCHANGED <<version, envSet>>
  /\ UNCHANGED <<cfg, keyParts, sel, envs, cancelled, eventType, taskPayload, reports, spawnedBeforeEnv,
                 tasVersion, phases, diffExists, tasConfig, uploads, cacheCalls, fan, disp>>

\* ------------------------------------------------------- runOldVersion
\* what runOldVersion does once its discovery block is over or skipped
AfterDiscoveryBlock ==
  IF cfg.ExecuteMode \/ cfg.FlakyMode
  THEN /\ pc' = "Run"
       /\ phases' = phases \cup {"execution"}
       /\ UNCHANGED <<err, panicked, cause>>
  ELSE ReturnNil /\ UNCHANGED phases

\* first step after the node version step
AfterNodeVersion ==
  IF cfg.DiscoverMode
  THEN /\ pc' = "GetBlockTests"
       /\ phases' = phases \cup {"discovery"}
       /\ UNCHANGED <<err, panicked, cause>>
  ELSE AfterDiscoveryBlock

LoadAndValidateV1 ==
  /\ pc = "LoadAndValidateV1"
  /\ \E r \in Res(TRUE) :
       \/ Ok(r, "installNodeVersion")
       \/ Fail(r, "LoadAndValidateV1", StatusFailed(RawText))
       \/ Panics(r)
  /\ UNCHANGED <<cfg, keyParts, sel, envs, cancelled, run, fan, disp>>

\* tasConfig.NodeVersion is read here only: node = FALSE is the empty string
installNodeVersion ==
  /\ pc = "installNodeVersion"
  /\ \E node \in BOOLEAN, r \in Res(TRUE) :
       /\ \/ (~node \/ r = "ok") /\ AfterNodeVersion
          \/ node /\ Fail(r, "installNodeVersion", ErrsNew(GenericErrRemark))
                  /\ UNCHANGED phases
          \/ node /\ Panics(r) /\ UNCHANGED phases
       /\ Spawns(IF node THEN {"nvm"} ELSE {})
  /\ UNCHANGED <<cfg, keyParts, sel, envs, cancelled, eventType, taskPayload, reports, version, envSet,
                 tasVersion, diffExists, tasConfig, uploads, cacheCalls, fan, disp>>

GetBlockTests ==
  /\ pc = "GetBlockTests"
  /\ \E r \in Res(TRUE) :
       \/ Ok(r, "Download")
       \/ Fail(r, "GetBlockTests", ErrsNew(GenericErrRemark))
       \/ Panics(r)
  /\ UNCHANGED <<cfg, keyParts, sel, envs, cancelled, run, fan, disp>>

Download ==
  /\ pc = "Download"
  /\ cacheCalls' = Append(cacheCalls, [op |-> "Download", key |-> cacheKey])
  /\ \E r \in Res(TRUE) :
       \/ Ok(r, "Prerun")
       \/ Fail(r, "Download", ErrsNew(GenericErrRemark))
       \/ Panics(r)
  /\ UNCHANGED <<cfg, keyParts, sel, envs, cancelled, eventType, taskPayload, reports,
                 version, envSet, spawnedBeforeEnv, tasVersion, phases, diffExists,
                 tasConfig, uploads, fan, disp>>

\* tasConfig.Prerun is read here only: pre = FALSE is nil
Prerun ==
  /\ pc = "Prerun"
  /\ \E pre \in BOOLEAN, r \in Res(TRUE) :
       /\ \/ (~pre \/ r = "ok") /\ Ok("ok", "InstallRunners")
          \/ pre /\ Fail(r, "Prerun", StatusFailed("Failed in running pre-run steps"))
          \/ pre /\ Panics(r)
       /\ Spawns(IF pre THEN {"prerun"} ELSE {})
  /\ UNCHANGED <<cfg, keyParts, sel, envs, cancelled, eventType, taskPayload, reports, version, envSet,
                 tasVersion, phases, diffExists, tasConfig, uploads, cacheCalls, fan, disp>>

InstallRunners ==
  /\ pc = "InstallRunners"
  /\ \E r \in Res(TRUE) :
       \/ Ok(r, "CacheWorkspace")
       \/ Fail(r, "InstallRunners", ErrsNew(GenericErrRemark))
       \/ Panics(r)
  /\ Spawns({"runners"})
  /\ UNCHANGED <<cfg, keyParts, sel, envs, cancelled, eventType, taskPayload, reports, version, envSet,
                 tasVersion, phases, diffExists, tasConfig, uploads, cacheCalls, fan, disp>>

CacheWorkspace ==
  /\ pc = "CacheWorkspace"
  /\ \E r \in Res(TRUE) :
       \/ Ok(r, "GetChangedFiles")
       \/ Fail(r, "CacheWorkspace", ErrsNew(GenericErrRemark))
       \/ Panics(r)
  /\ UNCHANGED <<cfg, keyParts, sel, envs, cancelled, run, fan, disp>>

\* DiffManager.GetChangedFiles: the map of the changed files on success, no
\* map together with an error
ChangedFilesResult(r) == IF r = "ok" THEN changedFiles ELSE NoDiff

\* lines 299-309: "notfound" is errs.ErrGitDiffNotFound, which is no failure
\* and makes diffExists false; any other error is returned
GetChangedFiles ==
  /\ pc = "GetChangedFiles"
  /\ \E r \in Res(TRUE) \cup {"notfound"} :
       /\ \/ Ok(r, "Discover") /\ UNCHANGED diffExists
          \/ /\ r = "notfound"
             /\ diffExists' = FALSE
             /\ pc' = "Discover"
             /\ UNCHANGED <<err, panicked, cause>>
          \/ /\ Fail(r, "GetChangedFiles",
                     ErrsNew("Error occurred in fetching diff from GitHub"))
             /\ UNCHANGED diffExists
          \/ Panics(r) /\ UNCHANGED diffExists
       /\ diff' = ChangedFilesResult(r)
  /\ UNCHANGED <<cfg, keyParts, envs, cancelled, eventType, taskPayload, reports, version, envSet,
                 spawnedBeforeEnv, tasVersion, phases,
                 tasConfig, uploads, cacheCalls, fan, disp, changedFiles, smartRun, args, argsOf>>

Upload ==
  /\ pc = "Upload"
  /\ uploads' = uploads + 1
  /\ cacheCalls' = Append(cacheCalls, [op |-> "Upload", key |-> cacheKey])
  /\ \E r \in Res(TRUE) :
       \/ r = "ok" /\ AfterDiscoveryBlock
       \/ Fail(r, "Upload", ErrsNew(GenericErrRemark)) /\ UNCHANGED phases
       \/ Panics(r) /\ UNCHANGED phases
  /\ UNCHANGED <<cfg, keyParts, sel, envs, cancelled, eventType, taskPayload, reports, version, envSet,
                 spawnedBeforeEnv, tasVersion, diffExists, tasConfig, fan, disp>>

\* TestExecutionService.Run: "partial" is an error with non-nil results,
\* for which runOldVersion goes on to SendResults
Run ==
  /\ pc = "Run"
  /\ \E r \in Res(TRUE) \cup {"partial"} :
       \/ r \in {"ok", "partial"} /\ Ok("ok", "SendResults")
       \/ Fail(r, "Run", StatusFailed("Failed in executing tests."))
       \/ Panics(r)
  /\ UNCHANGED <<cfg, keyParts, sel, envs, cancelled, run, fan, disp>>

\* the status the report server computed from the results
findTaskPayloadStatus == {Passed, Failed}

SendResults ==
  /\ pc = "SendResults"
  /\ \E r \in Res(TRUE), st \in findTaskPayloadStatus :
       \/ /\ Ok(r, "Postrun")
          /\ taskPayload' = [taskPayload EXCEPT !.Status = st]
       \/ /\ Fail(r, "SendResults", ErrsNew(GenericErrRemark))
          /\ UNCHANGED taskPayload
       \/ Panics(r) /\ UNCHANGED taskPayload
  /\ UNCHANGED <<cfg, keyParts, sel, envs, cancelled, eventType, reports, version, envSet, spawnedBeforeEnv, tasVersion,
                 phases, diffExists,
                 tasConfig, uploads, cacheCalls, fan, disp>>

\* tasConfig.Postrun is read here only: post = FALSE is nil
Postrun ==
  /\ pc = "Postrun"
  /\ \E post \in BOOLEAN, r \in Res(TRUE) :
       /\ \/ (~post \/ r = "ok") /\ ReturnNil
          \/ post /\ Fail(r, "Postrun", StatusFailed("Failed in running post-run steps."))
          \/ post /\ Panics(r)
       /\ Spawns(IF post THEN {"postrun"} ELSE {})
  /\ UNCHANGED <<cfg, keyParts, sel, envs, cancelled, eventType, taskPayload, reports, version, envSet,
                 tasVersion, phases, diffExists, tasConfig, uploads, cacheCalls, fan, disp>>

\* ---------------------------------------------------------- dispatcher
\* Invocation 0 is the Discover call of runOldVersion (line 312), invocation
\* i > 0 the DiscoverV2 call of submodule i's goroutine (line 515).  While
\* an invocation runs its caller stays at the call.
Called(i) == IF i = 0 THEN pc = "Discover" ELSE tpc[i] = "DiscoverV2"

\* a legacy path that returns the generic error when Discover fails
DiscoverReturnsGeneric(r) ==
  /\ \/ /\ r = "ok"
        /\ taskPayload' = [taskPayload EXCEPT !.Status = Passed]
        /\ Ok(r, "Upload")
     \/ /\ Fail(r, "Discover", ErrsNew(GenericErrRemark))
        /\ UNCHANGED taskPayload
  /\ UNCHANGED <<wg, tpc>>

\* runOldVersion after Discover returned r: on success the status is set to
\* Passed (line 319), else a StatusFailed error is returned
DiscoverReturns(r) ==
  /\ \/ /\ r = "ok"
        /\ taskPayload' = [taskPayload EXCEPT !.Status = Passed]
        /\ Ok(r, "Upload")
     \/ /\ Fail(r, "Discover", StatusFailed("Failed in discovering tests"))
        /\ UNCHANGED taskPayload
  /\ UNCHANGED <<wg, tpc>>

\* a goroutine that calls wg.Done() after a failure which has called it already
DiscoverV2ReturnsDoneTwice(i, r) ==
  /\ tpc' = [tpc EXCEPT ![i] = IF r = "ok" THEN "done" ELSE "failed"]
  /\ wg' = IF r = "ok" THEN wg - 1 ELSE wg - 2
  /\ UNCHANGED <<ctl, taskPayload>>

\* a goroutine whose failed discovery ends the run with the error
DiscoverV2FailureEndsRun(i, r) ==
  /\ tpc' = [tpc EXCEPT ![i] = IF r = "ok" THEN "done" ELSE "failed"]
  /\ wg' = wg - 1
  /\ IF r = "ok" THEN UNCHANGED <<pc, err, cause>>
     ELSE /\ pc' = "finalizer"
          /\ err' = StatusFailed("Failed in discovering tests")
          /\ cause' = r
  /\ UNCHANGED <<panicked, taskPayload>>

\* the goroutine of submodule i after DiscoverV2 returned r: wg.Done() by
\* runDiscoveryForEachSubModule on success (line 522), by the goroutine
\* after logging the error otherwise (lines 430-431, 443-444)
DiscoverV2Returns(i, r) ==
  /\ tpc' = [tpc EXCEPT ![i] = IF r = "ok" THEN "done" ELSE "failed"]
  /\ wg' = wg - 1
  /\ UNCHANGED <<ctl, taskPayload>>

DispatcherReturn(i, r) ==
  IF i = 0 THEN DiscoverReturns(r) ELSE DiscoverV2Returns(i, r)

\* the invocation goes on: nothing of its caller changes
NoReturn == UNCHANGED <<ctl, taskPayload, wg, tpc>>

\* Discover / DiscoverV2 up to cmd.Run: arguments and environment are built
\* (GetConfigFileName, GetEnvVariables may fail), the subprocess is spawned.
\* A panic of invocation 0 unwinds the controller; a panic of a submodule
\* goroutine is recovered nowhere and ends the process.
DispatcherBuild(i) ==
  /\ Alive
  /\ Called(i)
  /\ dpc[i] = "none"
  /\ \E r \in Res(FALSE) :
       \/ /\ r = "ok"
          /\ dpc' = [dpc EXCEPT ![i] = "running"]
          /\ Spawns({"runner"})
          /\ NoReturn
       \/ /\ r = "fail"
          /\ dpc' = [dpc EXCEPT ![i] = "returned"]
          /\ DispatcherReturn(i, r)
          /\ UNCHANGED spawnedBeforeEnv
       \/ /\ r = "panic"
          /\ dpc' = [dpc EXCEPT ![i] = "returned"]
          /\ IF i = 0 THEN Panics(r)
             ELSE pc' = "crashed" /\ UNCHANGED <<err, panicked, cause>>
          /\ UNCHANGED <<taskPayload, wg, tpc, spawnedBeforeEnv>>
  /\ UNCHANGED <<cfg, keyParts, sel, envs, cancelled, eventType, reports, version, envSet, tasVersion,
                 phases, diffExists, tasConfig, uploads, cacheCalls, launched, posted,
                 tdResChan, recvFrom, recvCount, exited>>

\* the collector hands the result of the running subprocess to the channel
RunnerPost(i) ==
  /\ Alive
  /\ dpc[i] = "running"
  /\ ~posted[i]
  /\ posted' = [posted EXCEPT ![i] = TRUE]
  /\ tdResChan' = Append(tdResChan, i)
  /\ UNCHANGED <<cfg, keyParts, sel, envs, cancelled, ctl, run, fan, dpc, recvFrom, recvCount, exited>>

\* cmd.Run returns: the subprocess has exited (killed when ctx is cancelled);
\* an error is returned to the caller at once
CmdRun(i) ==
  /\ Alive
  /\ dpc[i] = "running"
  /\ exited' = [exited EXCEPT ![i] = TRUE]
  /\ \E r \in Res(TRUE) \ {"panic"} :
       \/ /\ r = "ok"
          /\ dpc' = [dpc EXCEPT ![i] = "recv"]
          /\ NoReturn
       \/ /\ r # "ok"
          /\ dpc' = [dpc EXCEPT ![i] = "returned"]
          /\ DispatcherReturn(i, r)
  /\ UNCHANGED <<cfg, keyParts, sel, envs, cancelled, eventType, reports, version, envSet, spawnedBeforeEnv, tasVersion,
                 phases, diffExists,
                 tasConfig, uploads, cacheCalls, launched, posted, tdResChan, recvFrom,
                 recvCount>>

\* a receive that does not wait for cmd.Run
CanReceiveEarly(i) == dpc[i] \in {"running", "recv"}

\* the receive statement is reached once cmd.Run has returned nil
CanReceive(i) == dpc[i] = "recv"

\* testDiscoveryResult := <-tds.tdResChan
Receive(i) ==
  /\ Alive
  /\ CanReceive(i)
  /\ tdResChan # <<>>
  /\ recvFrom' = [recvFrom EXCEPT ![i] = Head(tdResChan)]
  /\ tdResChan' = Tail(tdResChan)
  /\ recvCount' = [recvCount EXCEPT ![i] = @ + 1]
  /\ dpc' = [dpc EXCEPT ![i] = "updateResult"]
  /\ UNCHANGED <<cfg, keyParts, sel, envs, cancelled, ctl, run, fan, posted, exited>>

\* the result is decorated and forwarded, and the invocation returns
updateResult(i) ==
  /\ Alive
  /\ dpc[i] = "updateResult"
  /\ dpc' = [dpc EXCEPT ![i] = "returned"]
  /\ \E r \in Res(TRUE) \ {"panic"} : DispatcherReturn(i, r)
  /\ UNCHANGED <<cfg, keyParts, sel, envs, cancelled, eventType, reports, version, envSet, spawnedBeforeEnv, tasVersion,
                 phases, diffExists,
                 tasConfig, uploads, cacheCalls, launched, posted, tdResChan, recvFrom,
                 recvCount, exited>>

\* ------------------------------------------------------- runNewVersion
\* a launch loop that takes the pre-merge list for every event
SelectedListAlwaysPre == "PreMerge"

\* the submodule list the launch loop iterates over
\* (line 422)
SelectedList == IF eventType = EventPush THEN "PostMerge" ELSE "PreMerge"

\* the length of that list (lines 424, 438)
NumSubModules == tasConfig[SelectedList]

\* the merge list whose env map DiscoverV2 takes (lines 146-150)
EnvMapList == IF eventType = EventPullRequest THEN "PreMerge" ELSE "PostMerge"

\* the v2 configs loaded: between them the two merge lists hold
\* MaxSubModules submodules, so that the lists differ in length
Configs ==
  {[PostMerge |-> a, PreMerge |-> MaxSubModules - a] : a \in 0..MaxSubModules}

\* with DiscoverMode off runNewVersion does nothing more and returns nil
LoadAndValidateV2 ==
  /\ pc = "LoadAndValidateV2"
  /\ \E r \in Res(TRUE), c \in Configs :
       \/ /\ r = "ok"
          /\ tasConfig' = c
          /\ IF cfg.DiscoverMode
             THEN /\ pc' = "DownloadV2"
                  /\ phases' = phases \cup {"discovery"}
                  /\ UNCHANGED <<err, panicked, cause>>
             ELSE ReturnNil /\ UNCHANGED phases
       \/ /\ Fail(r, "LoadAndValidateV2", StatusFailed(RawText))
          /\ UNCHANGED <<tasConfig, phases>>
       \/ Panics(r) /\ UNCHANGED <<tasConfig, phases>>
  /\ UNCHANGED <<cfg, keyParts, sel, envs, cancelled, eventType, taskPayload, reports, version, envSet,
                 spawnedBeforeEnv, tasVersion, diffExists, uploads, cacheCalls, fan, disp>>

DownloadV2 ==
  /\ pc = "DownloadV2"
  /\ cacheCalls' = Append(cacheCalls, [op |-> "Download", key |-> cacheKey])
  /\ \E r \in Res(TRUE) :
       \/ Ok(r, "GetChangedFilesV2")
       \/ Fail(r, "Download", ErrsNew(GenericErrRemark))
       \/ Panics(r)
  /\ UNCHANGED <<cfg, keyParts, sel, envs, cancelled, eventType, taskPayload, reports,
                 version, envSet, spawnedBeforeEnv, tasVersion, phases, diffExists,
                 tasConfig, uploads, fan, disp>>

\* lines 410-420
GetChangedFilesV2 ==
  /\ pc = "GetChangedFilesV2"
  /\ \E r \in Res(TRUE) \cup {"notfound"} :
       /\ \/ Ok(r, "launch") /\ UNCHANGED diffExists
          \/ /\ r = "notfound"
             /\ diffExists' = FALSE
             /\ pc' = "launch"
             /\ UNCHANGED <<err, panicked, cause>>
          \/ /\ Fail(r, "GetChangedFiles",
                     ErrsNew("Error occurred in fetching diff from GitHub"))
             /\ UNCHANGED diffExists
          \/ Panics(r) /\ UNCHANGED diffExists
       /\ diff' = ChangedFilesResult(r)
  /\ UNCHANGED <<cfg, keyParts, envs, cancelled, eventType, taskPayload, reports, version, envSet,
                 spawnedBeforeEnv, tasVersion, phases,
                 tasConfig, uploads, cacheCalls, fan, disp, changedFiles, smartRun, args, argsOf>>

\* one iteration of the launch loop: wg.Add(1) and the go statement
LaunchSubModule ==
  /\ pc = "launch"
  /\ launched < NumSubModules
  /\ launched' = launched + 1
  /\ wg' = wg + 1
  /\ tpc' = [tpc EXCEPT ![launched + 1] = "prepare"]
  /\ UNCHANGED <<cfg, keyParts, sel, envs, cancelled, ctl, run, disp>>

\* the loop is over: wg.Wait() stands in the pull-request branch only
EndLaunch ==
  /\ pc = "launch"
  /\ launched = NumSubModules
  /\ pc' = IF eventType = EventPush THEN "CacheWorkspaceV2" ELSE "wgWait"
  /\ UNCHANGED <<cfg, keyParts, sel, envs, cancelled, err, panicked, cause, run, fan, disp>>

WgWait ==
  /\ pc = "wgWait"
  /\ wg = 0
  /\ pc' = "CacheWorkspaceV2"
  /\ UNCHANGED <<cfg, keyParts, sel, envs, cancelled, err, panicked, cause, run, fan, disp>>

CacheWorkspaceV2 ==
  /\ pc = "CacheWorkspaceV2"
  /\ \E r \in Res(TRUE) :
       \/ Ok(r, "UploadV2")
       \/ Fail(r, "CacheWorkspace", ErrsNew(GenericErrRemark))
       \/ Panics(r)
  /\ UNCHANGED <<cfg, keyParts, sel, envs, cancelled, run, fan, disp>>

\* first Upload call of runNewVersion (line 460)
UploadV2 ==
  /\ pc = "UploadV2"
  /\ uploads' = uploads + 1
  /\ cacheCalls' = Append(cacheCalls, [op |-> "Upload", key |-> cacheKey])
  /\ \E r \in Res(TRUE) :
       \/ Ok(r, "UploadV2Again")
       \/ Fail(r, "Upload", ErrsNew(GenericErrRemark))
       \/ Panics(r)
  /\ UNCHANGED <<cfg, keyParts, sel, envs, cancelled, eventType, taskPayload, reports, version, envSet,
                 spawnedBeforeEnv, tasVersion, phases,
                 diffExists, tasConfig, fan, disp>>

\* second Upload call of runNewVersion (line 468), then return nil
UploadV2Again ==
  /\ pc = "UploadV2Again"
  /\ uploads' = uploads + 1
  /\ cacheCalls' = Append(cacheCalls, [op |-> "Upload", key |-> cacheKey])
  /\ \E r \in Res(TRUE) :
       \/ r = "ok" /\ ReturnNil
       \/ Fail(r, "Upload", ErrsNew(GenericErrRemark))
       \/ Panics(r)
  /\ UNCHANGED <<cfg, keyParts, sel, envs, cancelled, eventType, taskPayload, reports, version, envSet,
                 spawnedBeforeEnv, tasVersion, phases,
                 diffExists, tasConfig, fan, disp>>

\* ------------------------------------------- runDiscoveryForEachSubModule
\* lines 490-513: GetBlockTests, the pre-run commands (when subModule.Prerun
\* is set) and the runner install, each of which may fail; an error makes
\* the goroutine log it and call wg.Done() (lines 430-431, 443-444); a panic
\* in a goroutine is recovered nowhere and ends the process; the pre-run
\* commands and the runner install are the subprocesses these lines spawn
TaskPrepare(i) ==
  /\ Alive
  /\ tpc[i] = "prepare"
  /\ \E r \in Res(TRUE) :
       \/ /\ r = "ok"
          /\ tpc' = [tpc EXCEPT ![i] = "DiscoverV2"]
          /\ UNCHANGED <<pc, wg>>
       \/ /\ r \in {"fail", "canceled"}
          /\ tpc' = [tpc EXCEPT ![i] = "failed"]
          /\ wg' = wg - 1
          /\ UNCHANGED pc
       \/ /\ r = "panic"
          /\ pc' = "crashed"
          /\ UNCHANGED <<tpc, wg>>
  /\ Spawns({"prerun", "runners"})
  /\ UNCHANGED <<cfg, keyParts, sel, envs, cancelled, err, panicked, cause, eventType, taskPayload,
                 reports, version, envSet, tasVersion, phases, diffExists,
                 tasConfig, uploads, cacheCalls, launched, disp>>

\* --------------------------------------------------------- specification
Next ==
  \/ Cancel
  \/ FetchPayload
  \/ ValidatePayload
  \/ MergeAndUpload
  \/ MarkRunning
  \/ Finalizer
  \/ GetOauthSecret
  \/ GetRepoSecret
  \/ Clone
  \/ ExtractWorkspace
  \/ CreateCoverageDir
  \/ GetVersion
  \/ LoadAndValidateV1
  \/ installNodeVersion
  \/ GetBlockTests
  \/ Download
  \/ Prerun
  \/ InstallRunners
  \/ CacheWorkspace
  \/ GetChangedFiles
  \/ Upload
  \/ Run
  \/ SendResults
  \/ Postrun
  \/ LoadAndValidateV2
  \/ DownloadV2
  \/ GetChangedFilesV2
  \/ LaunchSubModule
  \/ EndLaunch
  \/ WgWait
  \/ CacheWorkspaceV2
  \/ UploadV2
  \/ UploadV2Again
  \/ \E i \in Inv : DispatcherBuild(i)
  \/ \E i \in Inv : RunnerPost(i)
  \/ \E i \in Inv : CmdRun(i)
  \/ \E i \in Inv : Receive(i)
  \/ \E i \in Inv : updateResult(i)
  \/ \E i \in SubIds : TaskPrepare(i)

Spec == Init /\ [][Next]_vars

\* ------------------------------------------------ scheduling of the steps
\* the steps of the controller: Start and the functions it calls run on one
\* goroutine, and every call it makes returns
ControllerNext ==
  \/ FetchPayload
  \/ ValidatePayload
  \/ MergeAndUpload
  \/ MarkRunning
  \/ Finalizer
  \/ GetOauthSecret
  \/ GetRepoSecret
  \/ Clone
  \/ ExtractWorkspace
  \/ CreateCoverageDir
  \/ GetVersion
  \/ LoadAndValidateV1
  \/ installNodeVersion
  \/ GetBlockTests
  \/ Download
  \/ Prerun
  \/ InstallRunners
  \/ CacheWorkspace
  \/ GetChangedFiles
  \/ Upload
  \/ Run
  \/ SendResults
  \/ Postrun
  \/ LoadAndValidateV2
  \/ DownloadV2
  \/ GetChangedFilesV2
  \/ LaunchSubModule
  \/ EndLaunch
  \/ WgWait
  \/ CacheWorkspaceV2
  \/ UploadV2
  \/ UploadV2Again

\* the steps of invocation i that need nothing from outside the process but
\* the exit of the subprocess, which ends by itself or is killed when the
\* context is cancelled (exec.CommandContext): each is taken once it stays
\* possible.  That the runner posts a result is not assumed.
DispatcherFair(i) ==
  /\ WF_vars(DispatcherBuild(i))
  /\ WF_vars(CmdRun(i))
  /\ WF_vars(Receive(i))
  /\ WF_vars(updateResult(i))

\* the Go scheduler runs every goroutine that can run: the controller, the
\* goroutine of every submodule, every invocation of the dispatcher
LiveSpec ==
  /\ Init /\ [][Next]_vars
  /\ WF_vars(ControllerNext)
  /\ \A i \in SubIds : WF_vars(TaskPrepare(i))
  /\ \A i \in Inv : DispatcherFair(i)

\* ----------------------------------------------- the version read alone
\* Start has reported Running, retrieved the secrets and acquired the
\* workspace, and is about to read the version of any config file
VersionInit ==
  /\ cfg \in {c \in [DiscoverMode : BOOLEAN, ExecuteMode : BOOLEAN,
                      FlakyMode : BOOLEAN, CoverageMode : BOOLEAN] : ~c.CoverageMode}
  /\ pc = "GetVersion"
  /\ err = NilErr
  /\ panicked = FALSE
  /\ cause = "none"
  /\ cancelled \in BOOLEAN
  /\ eventType \in {EventPush, EventPullRequest}
  /\ taskPayload = [Type |-> TaskType, Status |-> Running, Remark |-> ""]
  /\ reports = <<[Status |-> Running, Remark |-> ""]>>
  /\ version = 0
  /\ envSet = FALSE
  /\ spawnedBeforeEnv = IF cfg.DiscoverMode THEN {"git"} ELSE {}
  /\ tasVersion \in VersionFields
  /\ phases = {}
  /\ diffExists = TRUE
  /\ tasConfig = [PostMerge |-> 0, PreMerge |-> 0]
  /\ launched = 0
  /\ wg = 0
  /\ tpc = [i \in SubIds |-> "unlaunched"]
  /\ dpc = [i \in Inv |-> "none"]
  /\ posted = [i \in Inv |-> FALSE]
  /\ tdResChan = <<>>
  /\ recvFrom = [i \in Inv |-> -1]
  /\ recvCount = [i \in Inv |-> 0]
  /\ exited = [i \in Inv |-> FALSE]
  /\ uploads = 0
  /\ cacheCalls = <<>>
  /\ keyParts = OneKey
  /\ changedFiles = NoDiff
  /\ diff = NoDiff
  /\ smartRun = FALSE
  /\ args = <<>>
  /\ argsOf = "none"
  /\ loadedEnv = NoEnv
  /\ mergeEnv = NoEnv
  /\ subEnv = [i \in SubIds |-> NoEnv]
  /\ written = [i \in SubIds |-> {}]
  /\ cmdEnv = [i \in SubIds |-> NotBuilt]

VersionNext == GetVersion

VersionSpec == VersionInit /\ [][VersionNext]_vars

\* ------------------------------------------- the argument selection alone
\* Discover (lines 47-91) builds the argument list of the legacy runner
DiscoverSelect ==
  /\ Called(0)
  /\ argsOf = "none"
  /\ \E cf \in ConfigFiles, t \in Targets, o \in RangeOrders(diff) :
       args' = SelectorArgs(diff, diffExists, smartRun, cf, t, o)
  /\ argsOf' = "Discover"
  /\ UNCHANGED <<cfg, keyParts, envs, cancelled, ctl, run, fan, disp, changedFiles, diff, smartRun>>

\* DiscoverV2 (lines 145-192) builds the argument list of a submodule's runner
DiscoverV2Select(i) ==
  /\ Called(i)
  /\ argsOf = "none"
  /\ \E cf \in ConfigFiles, t \in Targets, o \in RangeOrders(diff) :
       args' = SelectorArgs(diff, diffExists, smartRun, cf, t, o)
  /\ argsOf' = "DiscoverV2"
  /\ UNCHANGED <<cfg, keyParts, envs, cancelled, ctl, run, fan, disp, changedFiles, diff, smartRun>>

\* a discovery run about to call the dispatcher, in runOldVersion (line 312)
\* or in the goroutine of the first submodule (line 515), with any diff map,
\* diffExists and smart-run flag
SelectorInit ==
  /\ cfg \in {c \in [DiscoverMode : BOOLEAN, ExecuteMode : BOOLEAN,
                      FlakyMode : BOOLEAN, CoverageMode : BOOLEAN] :
                c.DiscoverMode /\ ~c.CoverageMode}
  /\ tasVersion \in {t \in VersionStrings : VersionParses(t)}
  /\ version = VersionOf(tasVersion)
  /\ pc = IF version = 1 THEN "Discover" ELSE "launch"
  /\ err = NilErr
  /\ panicked = FALSE
  /\ cause = "none"
  /\ cancelled = FALSE
  /\ eventType \in {EventPush, EventPullRequest}
  /\ taskPayload = [Type |-> TaskType, Status |-> Running, Remark |-> ""]
  /\ reports = <<[Status |-> Running, Remark |-> ""]>>
  /\ envSet = TRUE
  /\ spawnedBeforeEnv = {"git"}
  /\ phases = {"discovery"}
  /\ diffExists \in BOOLEAN
  /\ tasConfig \in IF version = 1 THEN {[PostMerge |-> 0, PreMerge |-> 0]}
                   ELSE {c \in Configs : c[SelectedList] >= 1}
  /\ launched = IF version = 1 THEN 0 ELSE 1
  /\ wg = launched
  /\ tpc = [i \in SubIds |-> IF i <= launched THEN "DiscoverV2" ELSE "unlaunched"]
  /\ dpc = [i \in Inv |-> "none"]
  /\ posted = [i \in Inv |-> FALSE]
  /\ tdResChan = <<>>
  /\ recvFrom = [i \in Inv |-> -1]
  /\ recvCount = [i \in Inv |-> 0]
  /\ exited = [i \in Inv |-> FALSE]
  /\ uploads = 0
  /\ cacheCalls = <<>>
  /\ keyParts = OneKey
  /\ changedFiles \in Diffs
  /\ diff = changedFiles
  /\ smartRun \in BOOLEAN
  /\ args = <<>>
  /\ argsOf = "none"
  /\ loadedEnv = NoEnv
  /\ mergeEnv = NoEnv
  /\ subEnv = [i \in SubIds |-> NoEnv]
  /\ written = [i \in SubIds |-> {}]
  /\ cmdEnv = [i \in SubIds |-> NotBuilt]

SelectorNext ==
  \/ DiscoverSelect
  \/ \E i \in SubIds : DiscoverV2Select(i)

SelectorSpec == SelectorInit /\ [][SelectorNext]_vars

\* ------------------------------ diff computation and argument selection
\* a discovery run about to compute the changed files, in runOldVersion
\* (line 300) or in runNewVersion (line 411) with one submodule to launch,
\* for any changed files of the commit and any smart-run flag
DiffInit ==
  /\ cfg = [DiscoverMode |-> TRUE, ExecuteMode |-> FALSE,
            FlakyMode |-> FALSE, CoverageMode |-> FALSE]
  /\ tasVersion \in {t \in VersionStrings : VersionParses(t)}
  /\ version = VersionOf(tasVersion)
  /\ pc = IF version = 1 THEN "GetChangedFiles" ELSE "GetChangedFilesV2"
  /\ err = NilErr
  /\ panicked = FALSE
  /\ cause = "none"
  /\ cancelled \in BOOLEAN
  /\ eventType \in {EventPush, EventPullRequest}
  /\ taskPayload = [Type |-> TaskType, Status |-> Running, Remark |-> ""]
  /\ reports = <<[Status |-> Running, Remark |-> ""]>>
  /\ envSet = TRUE
  /\ spawnedBeforeEnv = {"git"}
  /\ phases = {"discovery"}
  /\ diffExists = TRUE
  /\ tasConfig \in IF version = 1 THEN {[PostMerge |-> 0, PreMerge |-> 0]}
                   ELSE {c \in Configs : c[SelectedList] = 1}
  /\ launched = 0
  /\ wg = 0
  /\ tpc = [i \in SubIds |-> "unlaunched"]
  /\ dpc = [i \in Inv |-> "none"]
  /\ posted = [i \in Inv |-> FALSE]
  /\ tdResChan = <<>>
  /\ recvFrom = [i \in Inv |-> -1]
  /\ recvCount = [i \in Inv |-> 0]
  /\ exited = [i \in Inv |-> FALSE]
  /\ uploads = 0
  /\ cacheCalls = <<>>
  /\ keyParts = OneKey
  /\ changedFiles \in Diffs
  /\ diff = NoDiff
  /\ smartRun \in BOOLEAN
  /\ args = <<>>
  /\ argsOf = "none"
  /\ loadedEnv = NoEnv
  /\ mergeEnv = NoEnv
  /\ subEnv = [i \in SubIds |-> NoEnv]
  /\ written = [i \in SubIds |-> {}]
  /\ cmdEnv = [i \in SubIds |-> NotBuilt]

DiffNext ==
  \/ GetChangedFiles
  \/ GetChangedFilesV2
  \/ LaunchSubModule
  \/ \E i \in SubIds : TaskPrepare(i)
  \/ DiscoverSelect
  \/ \E i \in SubIds : DiscoverV2Select(i)

DiffSpec == DiffInit /\ [][DiffNext]_vars

\* ------------------------------------------- the env maps of DiscoverV2
\* invocation j is between its entry and its GetEnvVariables call
Overlaying(j) == tpc[j] = "DiscoverV2" /\ dpc[j] = "none" /\ cmdEnv[j] = NotBuilt

\* invocation j has an iteration of its loop still to make
Writing(j) == Overlaying(j) /\ written[j] # Entries(subEnv[j])

\* lines 145-154: envMap is the merge-level map of the config itself (a Go
\* map value refers to the one map), and one iteration of the loop writes an
\* entry of the submodule into it.  The goroutines share the config: while a
\* sibling is between its entry and its read of the map, the write is a data
\* race, which the Go runtime may end the process for (fatal error:
\* concurrent map writes) or let through.
EnvOverlay(i) ==
  /\ Alive
  /\ Writing(i)
  /\ \/ /\ \E k \in Entries(subEnv[i]) \ written[i] :
             /\ written' = [written EXCEPT ![i] = @ \cup {k}]
             /\ mergeEnv' = Put(mergeEnv, k, subEnv[i][k])
        /\ UNCHANGED ctl
     \/ /\ \E j \in SubIds \ {i} : Overlaying(j)
        /\ pc' = "crashed"
        /\ UNCHANGED <<err, panicked, cause, written, mergeEnv>>
  /\ UNCHANGED <<cfg, keyParts, sel, cancelled, run, fan, disp, loadedEnv, subEnv, cmdEnv>>

\* line 194: GetEnvVariables(envMap, secretData) reads the same map, after
\* the loop; a sibling's write at that time is a data race as well
EnvRead(i) ==
  /\ Alive
  /\ Overlaying(i)
  /\ ~Writing(i)
  /\ \/ /\ cmdEnv' = [cmdEnv EXCEPT ![i] = mergeEnv]
        /\ UNCHANGED ctl
     \/ /\ \E j \in SubIds \ {i} : Writing(j)
        /\ pc' = "crashed"
        /\ UNCHANGED <<err, panicked, cause, cmdEnv>>
  /\ UNCHANGED <<cfg, keyParts, sel, cancelled, run, fan, disp, loadedEnv, mergeEnv, subEnv, written>>

\* a v2 discovery run whose launch loop has started the task of every
\* submodule of the selected list, each task about to call DiscoverV2, for
\* any env maps of the merge level and of the submodules
EnvInit ==
  /\ cfg = [DiscoverMode |-> TRUE, ExecuteMode |-> FALSE,
            FlakyMode |-> FALSE, CoverageMode |-> FALSE]
  /\ tasVersion = <<"2">>
  /\ version = VersionOf(tasVersion)
  /\ pc = "launch"
  /\ err = NilErr
  /\ panicked = FALSE
  /\ cause = "none"
  /\ cancelled = FALSE
  /\ eventType \in {EventPush, EventPullRequest}
  /\ taskPayload = [Type |-> TaskType, Status |-> Running, Remark |-> ""]
  /\ reports = <<[Status |-> Running, Remark |-> ""]>>
  /\ envSet = TRUE
  /\ spawnedBeforeEnv = {"git"}
  /\ phases = {"discovery"}
  /\ diffExists = TRUE
  /\ tasConfig \in {c \in Configs : c[SelectedList] = MaxSubModules}
  /\ launched = MaxSubModules
  /\ wg = launched
  /\ tpc = [i \in SubIds |-> "DiscoverV2"]
  /\ dpc = [i \in Inv |-> "none"]
  /\ posted = [i \in Inv |-> FALSE]
  /\ tdResChan = <<>>
  /\ recvFrom = [i \in Inv |-> -1]
  /\ recvCount = [i \in Inv |-> 0]
  /\ exited = [i \in Inv |-> FALSE]
  /\ uploads = 0
  /\ cacheCalls = <<>>
  /\ keyParts = OneKey
  /\ changedFiles = NoDiff
  /\ diff = NoDiff
  /\ smartRun = FALSE
  /\ args = <<>>
  /\ argsOf = "none"
  /\ loadedEnv \in MergeEnvMaps
  /\ mergeEnv = loadedEnv
  /\ subEnv \in {f \in [SubIds -> [EnvKeys -> {Absent} \cup SubIds]] :
                   \A i \in SubIds : f[i] \in SubEnvMaps(i)}
  /\ written = [i \in SubIds |-> {}]
  /\ cmdEnv = [i \in SubIds |-> NotBuilt]

EnvNext ==
  \/ \E i \in SubIds : EnvOverlay(i)
  \/ \E i \in SubIds : EnvRead(i)

EnvSpec == EnvInit /\ [][EnvNext]_vars

\* ------------------------------------------- the cache calls of discovery
\* a discovery run about to download the cache, in runOldVersion (line 268)
\* or in runNewVersion (line 400) with at most one submodule to launch, for
\* any identifiers and configured key
KeyInit ==
  /\ cfg = [DiscoverMode |-> TRUE, ExecuteMode |-> FALSE,
            FlakyMode |-> FALSE, CoverageMode |-> FALSE]
  /\ tasVersion \in {t \in VersionStrings : VersionParses(t)}
  /\ version = VersionOf(tasVersion)
  /\ pc = IF version = 1 THEN "Download" ELSE "DownloadV2"
  /\ err = NilErr
  /\ panicked = FALSE
  /\ cause = "none"
  /\ cancelled = FALSE
  /\ eventType \in {EventPush, EventPullRequest}
  /\ taskPayload = [Type |-> TaskType, Status |-> Running, Remark |-> ""]
  /\ reports = <<[Status |-> Running, Remark |-> ""]>>
  /\ envSet = TRUE
  /\ spawnedBeforeEnv = {"git"}
  /\ phases = {"discovery"}
  /\ diffExists = TRUE
  /\ tasConfig \in IF version = 1 THEN {[PostMerge |-> 0, PreMerge |-> 0]}
                   ELSE {c \in Configs : c[SelectedList] <= 1}
  /\ launched = 0
  /\ wg = 0
  /\ tpc = [i \in SubIds |-> "unlaunched"]
  /\ dpc = [i \in Inv |-> "none"]
  /\ posted = [i \in Inv |-> FALSE]
  /\ tdResChan = <<>>
  /\ recvFrom = [i \in Inv |-> -1]
  /\ recvCount = [i \in Inv |-> 0]
  /\ exited = [i \in Inv |-> FALSE]
  /\ uploads = 0
  /\ cacheCalls = <<>>
  /\ keyParts \in KeyPartsSet
  /\ changedFiles = NoDiff
  /\ diff = NoDiff
  /\ smartRun = FALSE
  /\ args = <<>>
  /\ argsOf = "none"
  /\ loadedEnv = NoEnv
  /\ mergeEnv = NoEnv
  /\ subEnv = [i \in SubIds |-> NoEnv]
  /\ written = [i \in SubIds |-> {}]
  /\ cmdEnv = [i \in SubIds |-> NotBuilt]

\* the discovery block of runOldVersion from the download on (lines 268-327)
\* and the one of runNewVersion (lines 400-473) with its submodule tasks
KeyNext ==
  \/ Download
  \/ Prerun
  \/ InstallRunners
  \/ CacheWorkspace
  \/ GetChangedFiles
  \/ Upload
  \/ DownloadV2
  \/ GetChangedFilesV2
  \/ LaunchSubModule
  \/ EndLaunch
  \/ WgWait
  \/ CacheWorkspaceV2
  \/ UploadV2
  \/ UploadV2Again
  \/ \E i \in Inv : DispatcherBuild(i)
  \/ \E i \in Inv : RunnerPost(i)
  \/ \E i \in Inv : CmdRun(i)
  \/ \E i \in Inv : Receive(i)
  \/ \E i \in Inv : updateResult(i)
  \/ \E i \in SubIds : TaskPrepare(i)

KeySpec == KeyInit /\ [][KeyNext]_vars

\* ================================================================ claims
\* the finalizer has made the terminal report
TerminalReported == Len(reports) = 2
TerminalReport == reports[2]

\* C1: a run of Start that got past the Running report makes the terminal
\* report exactly once on every exit path (return nil, early error return,
\* recovered panic): reports hold the Running report, then at most one more;
\* Start has not returned without it; nothing runs once it is made.
C1_TerminalReportOnce ==
  /\ Len(reports) <= 2
  /\ Len(reports) >= 1 => reports[1].Status = Running
  /\ pc = "returned" => TerminalReported
  /\ TerminalReported => pc \in {"returned", "exited"}

\* C1 witness: Start returned after a recovered panic, with its one report
C1_Witness == pc = "returned" /\ panicked /\ TerminalReported

\* C2: in every mode and both schema versions the status of the terminal
\* report is Passed, Failed, Error or Aborted, never Running
C2_TerminalStatus ==
  (TerminalReported /\ (cfg.DiscoverMode \/ cfg.ExecuteMode \/ cfg.FlakyMode))
    => TerminalReport.Status \in Terminal

\* the schema-v2 controller has performed CacheWorkspace
PersistenceDone == pc \in {"UploadV2", "UploadV2Again"}

\* C3: on the v2 discovery path, push and pull request alike, workspace
\* persistence and cache upload happen only with the wait-group at zero
C3_BarrierBeforePersist == PersistenceDone => wg = 0

\* C4: an invocation receives from the result channel only after its
\* subprocess has exited and at most once; while the subprocess runs the
\* invocation holds no result and its caller is still blocked in the call
C4_ReceiveAfterExit ==
  \A i \in Inv :
    /\ recvCount[i] <= 1
    /\ recvCount[i] >= 1 => exited[i]
    /\ dpc[i] = "running" => (recvFrom[i] = -1 /\ Called(i))

\* C4 witness: a DiscoverV2 invocation whose subprocess exited has received
\* while a sibling's subprocess is still running
C4_Witness ==
  \E i, j \in SubIds : recvCount[i] = 1 /\ exited[i] /\ dpc[j] = "running"

\* C5: the result an invocation receives is the one extracted from its own
\* subprocess: with its own result delivered, it receives no other one
C5_OwnResult ==
  \A i \in Inv : (recvFrom[i] # -1 /\ posted[i]) => recvFrom[i] = i

\* the step from pc = "finalizer": the deferred function runs
FinalizerStep == pc = "finalizer" /\ pc' \in {"returned", "exited"}

\* C6: the finalizer classifies a cancellation error as Aborted with remark
\* "Task aborted", a StatusFailed error as Failed with the error's own
\* message, and any other non-nil error as Error
C6_Classification ==
  [][(FinalizerStep /\ ~panicked /\ err.kind # "nil") =>
       /\ err.kind = "canceled" =>
            (taskPayload'.Status = Aborted /\ taskPayload'.Remark = "Task aborted")
       /\ err.kind = "StatusFailed" =>
            (taskPayload'.Status = Failed /\ taskPayload'.Remark = err.msg)
       /\ err.kind \notin {"canceled", "StatusFailed"} =>
            taskPayload'.Status = Error]_vars

\* C6 witness: a run that ended with a cancellation error was reported as
\* Aborted, "Task aborted"
C6_Witness ==
  /\ pc = "returned"
  /\ cause = "canceled"
  /\ TerminalReport = [Status |-> Aborted, Remark |-> "Task aborted"]

\* a run in discovery mode alone ended without error: no call of the
\* controller failed or panicked and, on the submodule path, the
\* submodules, at least one, were all launched and discovered
DiscoveryCompletedNoError ==
  /\ TerminalReported
  /\ cfg.DiscoverMode /\ ~cfg.ExecuteMode /\ ~cfg.FlakyMode
  /\ cause = "none" /\ ~panicked
  /\ version >= 2 => (launched >= 1 /\ launched = NumSubModules)
  /\ \A i \in 1..launched : tpc[i] = "done"

\* C7: a discovery run that completes with no error reports Passed, on the
\* legacy path and on the submodule path
C7_DiscoveryPassed == DiscoveryCompletedNoError => TerminalReport.Status = Passed

\* C8: a run whose context was cancelled while the controller was blocked in
\* a cancellable step, so that the step returned the cancellation error,
\* ends with status Aborted and remark "Task aborted"
C8_CancelledIsAborted ==
  (TerminalReported /\ cause = "canceled")
    => TerminalReport = [Status |-> Aborted, Remark |-> "Task aborted"]

\* the fixed messages the controller substitutes for internal errors
SafeRemarks == {GenericErrRemark, "Error occurred in fetching diff from GitHub"}

\* C9: a terminal status Error carries a safe fixed remark, never the text
\* of the underlying error, whichever step failed
C9_ErrorRemarkGeneric ==
  (TerminalReported /\ TerminalReport.Status = Error)
    => (TerminalReport.Remark \in SafeRemarks /\ TerminalReport.Remark # RawText)

\* C10 (as claimed): a terminal value of the status field is never changed
C10_TerminalStable ==
  [][taskPayload.Status \in Terminal => taskPayload'.Status = taskPayload.Status]_vars

\* C10 (amended): a terminal value of the status field is changed only by
\* the execution phase storing the status SendResults returned, or by the
\* finalizer of a run that ended with an error or a recovered panic, which
\* sets Failed, Error or Aborted; the finalizer of a run that ended without
\* error leaves it as it is
C10_TerminalChangedOnlyOnError ==
  [][(taskPayload.Status \in Terminal /\ taskPayload'.Status # taskPayload.Status) =>
       \/ pc = "SendResults"
       \/ /\ FinalizerStep
          /\ panicked \/ err.kind # "nil"
          /\ taskPayload'.Status \in {Failed, Error, Aborted}]_vars

\* C10 witness: the legacy discovery set Passed, the upload failed, and the
\* finalizer reported Error
C10_Witness ==
  /\ TerminalReported
  /\ version = 1 /\ uploads = 1 /\ cause = "fail" /\ ~cfg.ExecuteMode /\ ~cfg.FlakyMode
  /\ TerminalReport.Status = Error

\* C11: a panic on the controller's own flow, raised once the finalizer is
\* registered, starts the finalizer instead of leaving Start; the finalizer
\* of a panicked run reports Error with the generic remark, once, and Start
\* then returns (or the process exits on a failed report)
C11_PanicRecovered ==
  [][/\ (~panicked /\ panicked') => pc' = "finalizer"
     /\ (FinalizerStep /\ panicked) =>
          /\ reports' = Append(reports, [Status |-> Error, Remark |-> GenericErrRemark])
          /\ taskPayload'.Status = Error
          /\ pc' = "returned" => err' = NilErr]_vars

\* C11 witness: a panic during dispatch on the submodule path was recovered
\* and reported as Error with the generic remark
C11_Witness ==
  /\ pc = "returned" /\ panicked /\ version >= 2
  /\ TerminalReport = [Status |-> Error, Remark |-> GenericErrRemark]

\* C12: a failure of FetchPayload or ValidatePayload stops the process at
\* once with no UpdateStatus call made, and a stopped process takes no
\* further step
C12_FatalPayload ==
  [][/\ (pc \in {"FetchPayload", "ValidatePayload"} /\ pc' = "exited") => reports' = <<>>
     /\ pc = "exited" => UNCHANGED vars]_vars

\* C12 witness: the payload was fetched, its validation failed, and the
\* process stopped without a report
C12_Witness ==
  pc = "exited" /\ reports = <<>> /\ eventType # "unset" /\ ~cfg.CoverageMode

\* the step in which the version read fails
GetVersionFailed == pc = "GetVersion" /\ cause' # cause

\* C13 (as claimed): a failed read of the config version ends the process at
\* once, so that no terminal report is made
C13_VersionReadFatal == [][GetVersionFailed => pc' = "exited"]_vars

\* C13 (amended): a failed read of the config version makes no report by
\* itself and ends Start with a StatusFailed error carrying the text of the
\* read error; the finalizer then makes the terminal report, Failed with
\* that text as remark
C13_VersionReadReported ==
  [][/\ GetVersionFailed =>
          (pc' = "finalizer" /\ err' = StatusFailed(RawText) /\ reports' = reports)
     /\ (FinalizerStep /\ ~panicked /\ version = 0 /\ err = StatusFailed(RawText)) =>
          reports' = Append(reports, [Status |-> Failed, Remark |-> RawText])]_vars

\* C13 witness: the version field did not parse, and the run was reported
\* as Failed with the text of the read error
C13_Witness ==
  /\ pc = "returned" /\ version = 0 /\ tasVersion = <<"a">>
  /\ TerminalReport = [Status |-> Failed, Remark |-> RawText]

Phase(p) ==
  IF p \in {"FetchPayload", "ValidatePayload", "MergeAndUpload", "MarkRunning"} THEN 0
  ELSE IF p \in {"GetOauthSecret", "GetRepoSecret"} THEN 1
  ELSE IF p \in {"Clone", "ExtractWorkspace", "CreateCoverageDir"} THEN 2
  ELSE IF p = "GetVersion" THEN 3
  ELSE IF p \in {"finalizer", "returned", "exited", "crashed"} THEN 5
  ELSE 4

\* C15: the controller passes secret retrieval, workspace acquisition,
\* config version and dispatch in this order, one after the other and never
\* backwards; it enters a step only when no call before it failed or
\* panicked; a failure or panic leads to the finalizer, from where no step
\* is entered again; discovery and execution (dispatcher invocations,
\* submodule tasks, phases) start only in dispatch, with the version read
C15_StepOrder ==
  [][/\ Phase(pc') >= Phase(pc)
     /\ Phase(pc') \in 1..4 =>
          (Phase(pc') <= Phase(pc) + 1 /\ cause' = "none" /\ ~panicked')
     /\ (cause' # cause \/ (panicked' /\ ~panicked)) => Phase(pc') = 5
     /\ (dpc' # dpc \/ tpc' # tpc \/ phases' # phases) =>
          (Phase(pc) >= 4 /\ version # 0 /\ envSet)]_vars

\* C15 witness: the legacy discovery runner is running, dispatched after
\* the secrets, the clone and the version read
C15_Witness ==
  pc = "Discover" /\ dpc[0] = "running" /\ version = 1 /\ phases = {"discovery"}

\* the decimal digits of n, most significant first
RECURSIVE Itoa(_)
Itoa(n) ==
  IF n < Len(Digits) THEN <<Digits[n + 1]>>
  ELSE Itoa(n \div Len(Digits)) \o <<Digits[(n % Len(Digits)) + 1]>>

\* s without its leading zeros (the last digit stays)
RECURSIVE StripZeros(_)
StripZeros(s) == IF Len(s) > 1 /\ Head(s) = "0" THEN StripZeros(Tail(s)) ELSE s

\* the field s starts with the decimal number n, which ends at the first
\* dot or at the end of the field
IsMajorOf(n, s) ==
  \E k \in 1..Len(s) :
    /\ StripZeros(SubSeq(s, 1, k)) = Itoa(n)
    /\ k = Len(s) \/ s[k + 1] = "."

\* the field s has no number before its first dot
NoMajor(s) ==
  \/ s = <<>>
  \/ \E j \in 1..Len(s) :
       /\ \A k \in 1..j : s[k] # "."
       /\ \A d \in 1..Len(Digits) : s[j] # Digits[d]
  \/ s[1] = "."

\* the controller positions of runNewVersion
SubmodulePcs ==
  {"LoadAndValidateV2", "DownloadV2", "GetChangedFilesV2", "launch", "wgWait",
   "CacheWorkspaceV2", "UploadV2", "UploadV2Again"}

\* C16: a run that reaches dispatch takes exactly one path, runNewVersion
\* if and only if the version read is at least 2 and runOldVersion
\* otherwise; the version read is the integer before the first dot of the
\* config's version field, and a field without one fails the run
C16_VersionDispatch ==
  /\ Phase(pc) = 4 =>
       /\ pc \in SubmodulePcs <=> version >= 2
       /\ IsMajorOf(version, tasVersion)
  /\ (\E i \in SubIds : tpc[i] # "unlaunched") => version >= 2
  /\ dpc[0] # "none" => version < 2
  /\ (Phase(pc) > 3 /\ NoMajor(tasVersion)) =>
       (Phase(pc) = 5 /\ version = 0 /\ ~envSet)

\* C16 witness: the field "10." was read as version 10 and the run entered
\* runNewVersion
C16_Witness ==
  pc = "LoadAndValidateV2" /\ tasVersion = <<"1", "0", ".">> /\ version = 10

\* Start returned from a run with a mode selected in which no call failed or
\* panicked
CompletedNoError ==
  /\ pc = "returned" /\ cause = "none" /\ ~panicked
  /\ cfg.DiscoverMode \/ cfg.ExecuteMode \/ cfg.FlakyMode

\* C17: a run outside coverage mode performs exactly one of the discovery
\* phase and the execution phase, whatever the mode flags and the schema
\* version: a run that completed entered one of them and not the other
C17_ExactlyOnePhase == CompletedNoError => Cardinality(phases) = 1

\* the places of the argument list a that hold --diff: followed by a path of
\* the diff (path-specific), or by no path (bare)
DiffPlaces(a) == {k \in 1..Len(a) : a[k] = "--diff"}
PathDiffs(a) == {k \in DiffPlaces(a) : k < Len(a) /\ a[k + 1] \in Files}
BareDiffs(a) == DiffPlaces(a) \ PathDiffs(a)

\* C18: whatever the diff map and diffExists, a diff that holds the config
\* file path as a key, or smart run switched off, gives an argument list
\* without any --diff argument, in Discover and in DiscoverV2
C18_FullDiscovery ==
  (argsOf # "none" /\ (TasFile \in DOMAIN diff \/ ~smartRun)) => DiffPlaces(args) = {}

\* C18 witness: DiscoverV2 built its arguments with smart run on for a diff
\* that holds the config file and a modified source file
C18_Witness ==
  /\ argsOf = "DiscoverV2" /\ smartRun
  /\ DOMAIN diff = {TasFile, "a.ts"} /\ diff["a.ts"] = FileModified
  /\ "--pattern" \in {args[k] : k \in 1..Len(args)}

\* C19: with smart run on, the config file not in the diff, diffExists true
\* and an empty diff map, the argument list holds exactly one bare --diff
\* and no path-specific one
C19_BareDiff ==
  (argsOf # "none" /\ smartRun /\ diffExists /\ DOMAIN diff = {}) =>
    (Cardinality(BareDiffs(args)) = 1 /\ PathDiffs(args) = {})

\* C19 witness: Discover built the arguments for an empty diff that exists,
\* with a config file and patterns after the bare --diff
C19_Witness ==
  /\ argsOf = "Discover" /\ smartRun /\ diffExists /\ DOMAIN diff = {}
  /\ Len(args) > 4 /\ args[3] = "--diff" /\ args[4] = "--config"

\* C20: with smart run on, the config file not in the diff and a non-empty
\* diff map, the argument list holds exactly one `--diff <path>` pair for
\* every entry that is not Removed, none for a Removed entry, and no bare
\* --diff
C20_DiffPerChangedFile ==
  (argsOf # "none" /\ smartRun /\ TasFile \notin DOMAIN diff /\ DOMAIN diff # {}) =>
    /\ \A f \in DOMAIN diff :
         Cardinality({k \in PathDiffs(args) : args[k + 1] = f})
           = IF diff[f] # FileRemoved THEN 1 ELSE 0
    /\ \A k \in PathDiffs(args) : args[k + 1] \in DOMAIN diff
    /\ BareDiffs(args) = {}

\* C20 witness: for the diff {a.ts: Modified, b.ts: Removed} the arguments
\* hold --diff a.ts and nothing for b.ts
C20_Witness ==
  /\ argsOf # "none" /\ smartRun
  /\ DOMAIN diff = {"a.ts", "b.ts"}
  /\ diff["a.ts"] = FileModified /\ diff["b.ts"] = FileRemoved
  /\ SubSeq(args, 3, 4) = <<"--diff", "a.ts">>

\* the step in which the diff computation returns
ChangedFilesStep == pc \in {"GetChangedFiles", "GetChangedFilesV2"} /\ pc' # pc

\* C21: a "diff not found" error of the diff computation does not fail the
\* run: the controller goes on to discovery with diffExists false and no
\* error, and the argument list then built holds no --diff at all, with smart
\* run on as well; any other error of the diff computation is returned, with
\* no submodule launched and no argument list built
C21_DiffNotFound ==
  [][/\ (ChangedFilesStep /\ ~diffExists') =>
          (pc' \in {"Discover", "launch"} /\ err' = NilErr /\ ~panicked' /\ diff' = NoDiff)
     /\ (ChangedFilesStep /\ cause' # cause) =>
          /\ pc' = "finalizer"
          /\ err' = ErrsNew("Error occurred in fetching diff from GitHub")
          /\ launched' = 0 /\ argsOf' = "none"
     /\ (argsOf = "none" /\ argsOf' # "none" /\ ~diffExists) =>
          DiffPlaces(args') = {}]_vars

\* C21 witness: the commit changed files and smart run is on, the diff was
\* not found, and the runner of a submodule got an argument list without
\* --diff
C21_Witness ==
  /\ argsOf = "DiscoverV2" /\ ~diffExists /\ smartRun
  /\ changedFiles # NoDiff /\ TasFile \notin DOMAIN changedFiles
  /\ DiffPlaces(args) = {}

\* the merge list of the event: post-merge on push, pre-merge on pull request
ListOfEvent ==
  IF eventType = EventPush THEN "PostMerge"
  ELSE IF eventType = EventPullRequest THEN "PreMerge" ELSE "none"

\* the launch loop of runNewVersion is over
LaunchOver == pc \in {"wgWait", "CacheWorkspaceV2", "UploadV2", "UploadV2Again"}

\* C22: in a v2 discovery run the tasks are launched from the one list of
\* the event: a task is launched for the first `launched` submodules of that
\* list and for nothing else, never for more submodules than that list
\* holds, and once the loop is over for each of them; an invocation of
\* DiscoverV2 takes the merge-level env map of the same list
C22_OneListPerEvent ==
  /\ \A i \in SubIds : tpc[i] # "unlaunched" <=> i <= launched
  /\ launched > 0 => (ListOfEvent # "none" /\ launched <= tasConfig[ListOfEvent])
  /\ LaunchOver => launched = tasConfig[ListOfEvent]
  /\ \A i \in SubIds : dpc[i] # "none" => EnvMapList = ListOfEvent

\* C22 witness: on a push event with merge lists of different lengths, one
\* task per submodule of the post-merge list was launched and has called
\* DiscoverV2, and the loop is over
C22_Witness ==
  /\ eventType = EventPush /\ tasConfig.PostMerge > tasConfig.PreMerge
  /\ LaunchOver /\ launched = tasConfig.PostMerge
  /\ \A i \in 1..launched : dpc[i] # "none"

\* C23: a v2 discovery run in which no call failed, workspace persistence
\* and upload included, has called CacheStore.Upload exactly once
C23_UploadOnce ==
  (CompletedNoError /\ version >= 2 /\ cfg.DiscoverMode) => uploads = 1

\* the task of submodule i fails in this step
TaskFails(i) == tpc[i] # "failed" /\ tpc'[i] = "failed"

\* C24: the failure of a submodule task leaves the context uncancelled, the
\* controller where it is and without error, and every sibling task and its
\* dispatcher invocation as they are, free to go on; it takes the task's one
\* count off the wait-group; and a v2 run in which no call of the controller
\* failed or panicked is reported neither Failed nor Error, failed tasks or not
C24_FailureIsLocal ==
  [][/\ \A i \in SubIds :
          TaskFails(i) =>
            /\ cancelled' = cancelled /\ pc' = pc /\ err' = err
            /\ taskPayload' = taskPayload
            /\ wg' = wg - 1
            /\ \A j \in SubIds \ {i} :
                 /\ tpc'[j] = tpc[j] /\ dpc'[j] = dpc[j]
                 /\ posted'[j] = posted[j] /\ recvFrom'[j] = recvFrom[j]
            /\ tdResChan' = tdResChan
     /\ (FinalizerStep /\ version >= 2 /\ cause = "none" /\ ~panicked) =>
          reports'[2].Status \notin {Failed, Error}]_vars

\* C24 witness: in a run on a pull request the task of one submodule failed,
\* its sibling discovered and got its own result, nothing was cancelled, the
\* controller passed the barrier and the uploads without error, and the
\* report the finalizer is about to make is neither Failed nor Error
C24_Witness ==
  /\ pc = "finalizer" /\ ~cancelled /\ eventType = EventPullRequest
  /\ cause = "none" /\ ~panicked /\ uploads = 2
  /\ tpc[1] = "failed" /\ tpc[2] = "done" /\ recvFrom[2] = 2
  /\ Classify(panicked, err, taskPayload).Status \notin {Failed, Error}

\* C25: the env map handed to the subprocess of every submodule is the
\* merge-level map as loaded overlaid with the submodule's own map and with
\* nothing else, in every interleaving of the tasks, and DiscoverV2 leaves
\* the merge-level map of the loaded config as it was
C25_EnvIsolated ==
  /\ \A i \in SubIds :
       cmdEnv[i] # NotBuilt => cmdEnv[i] = Overlay(loadedEnv, subEnv[i])
  /\ mergeEnv = loadedEnv

\* C26: every cache call of a run, download or upload, on the legacy path
\* and on the submodule path, is made with the key
\* orgID "/" repoID "/" configured key, so that all calls of a run use one
\* key, which only these three inputs determine
C26_CacheKey ==
  \A n \in 1..Len(cacheCalls) :
    /\ cacheCalls[n].key =
         keyParts.OrgID \o <<"/">> \o keyParts.RepoID \o <<"/">> \o keyParts.Key
    /\ cacheCalls[n].key = cacheCalls[1].key

\* C26 witness: a run on the submodule path, with an organisation id that
\* differs from the repository id, has downloaded and uploaded the cache
C26_Witness ==
  /\ version = 2 /\ keyParts.OrgID # keyParts.RepoID
  /\ Len(cacheCalls) >= 2
  /\ cacheCalls[1].op = "Download" /\ cacheCalls[2].op = "Upload"

\* the launched tasks that have not finished
Outstanding == {i \in SubIds : tpc[i] \in {"prepare", "DiscoverV2"}}

\* C27: the wait-group counter is the number of launched tasks that have
\* not finished, in every interleaving: each task takes its one count off
\* when it finishes, by success or by any failure, the counter never drops
\* below zero, and it is zero exactly when every launched task has finished;
\* a finished task stays finished
C27_BarrierCount ==
  [][/\ wg' >= 0
     /\ wg' = Cardinality(Outstanding')
     /\ \A i \in SubIds :
          /\ (i \in Outstanding /\ i \notin Outstanding') =>
               (tpc'[i] \in {"done", "failed"} /\ wg' = wg - 1)
          /\ tpc[i] \in {"done", "failed"} => tpc'[i] = tpc[i]]_vars

\* C27 witness: one task failed, its sibling succeeded, and the counter is
\* back at zero with the controller at wg.Wait()
C27_Witness ==
  /\ pc = "wgWait" /\ wg = 0 /\ launched = 2
  /\ tpc[1] = "done" /\ tpc[2] = "failed"

\* invocation i has spawned its subprocess and has not returned
InFlight(i) == dpc[i] \in {"running", "recv", "updateResult"}

\* C28: once the context is cancelled, every invocation in flight returns in
\* the end (unless the process ends first), one whose subprocess has exited
\* successfully and whose result is not delivered included
C28_CancelledReturns ==
  \A i \in Inv : (cancelled /\ InFlight(i)) ~> (dpc[i] = "returned" \/ ~Alive)

\* the error runOldVersion returns for a failed discovery
DiscoveryFailed == StatusFailed("Failed in discovering tests")

\* C29: on the legacy path an error returned by Discover, from cmd.Run, from
\* the environment build or from updateResult, ends runOldVersion with the
\* error "Failed in discovering tests" and no cache upload made, and the
\* finalizer then reports Failed with that remark, still with no upload
C29_LegacyDiscoveryFails ==
  [][/\ (pc = "Discover" /\ pc' # pc /\ cause' # cause) =>
          (pc' = "finalizer" /\ err' = DiscoveryFailed /\ uploads' = 0)
     /\ (FinalizerStep /\ ~panicked /\ version = 1 /\ err = DiscoveryFailed) =>
          /\ reports' = Append(reports, [Status |-> Failed,
                                         Remark |-> "Failed in discovering tests"])
          /\ uploads' = 0
          /\ \A n \in 1..Len(cacheCalls') : cacheCalls'[n].op # "Upload"]_vars

\* C29 witness: the discovery subprocess of a legacy run exited with an
\* error, and the run was reported Failed, "Failed in discovering tests",
\* without an upload
C29_Witness ==
  /\ pc = "returned" /\ version = 1 /\ uploads = 0
  /\ dpc[0] = "returned" /\ exited[0] /\ recvCount[0] = 0 /\ cause = "fail"
  /\ TerminalReport = [Status |-> Failed, Remark |-> "Failed in discovering tests"]

\* C30: a panic inside the task of a submodule does not leave the run: the
\* process is never ended by it, so that the run goes on to its finalizer
\* and the report of Error
C30_TaskPanicContained == pc # "crashed"

\* C31: Start never returns an error that is not nil: the finalizer overwrites
\* the named return value with the result of the terminal status update, so
\* that Start returns nil when the update succeeded, whatever error or panic
\* ended the run, and the process exits instead of returning when it failed
C31_StartReturnsNil ==
  /\ [](pc = "returned" => err = NilErr)
  /\ [][FinalizerStep =>
         \/ err' = NilErr /\ pc' = "returned"
         \/ err' # NilErr /\ pc' = "exited"]_vars

\* C31 witness: runs ended by an error and by a panic have been reported and
\* Start has returned nil
C31_Witness ==
  /\ pc = "returned" /\ err = NilErr
  /\ (cause \in {"fail", "canceled"} \/ panicked)
  /\ TerminalReport.Status \in {Failed, Error, Aborted}

====
